---- MODULE Spec2Model ----
(***************************************************************************)
(* A model of two parts of the repository:                                 *)
(*   - benchmarks/src/graph.rs: the graph ("sweep") parameters, the        *)
(*     per-run argument overrides and the CSV results writer;              *)
(*   - health-reporter/src/lib.rs: the shared HealthReporter.              *)
(* Strings are sequences of one-character strings, so that splitting,      *)
(* prefixing, extension lookup and lexicographic comparison are computed.  *)
(* Option<T> is a sequence of length at most one.                          *)
(***************************************************************************)
EXTENDS Integers, Sequences, FiniteSets, TLC

VARIABLES
    \* ---- health-reporter ----
    health,         \* the Health behind Arc<RwLock<_>>, shared by all clones
    now,            \* the reading of the clock behind Utc::now()
    pc,             \* per clone: position inside set_state
    new_state,      \* per clone: the argument of the set_state in progress
    new_health,     \* per clone: the local `new_health` of set_state
    lastReturned,   \* history: the argument of the set_state that returned last,
                    \* while no step of another set_state has run since
    started,        \* history: some set_state has been called
    \* ---- benchmarks/graph ----
    cli,            \* the command line, as given
    params,         \* Option<GraphParams>: the parsed parameters
    rejected,       \* the argument parser refused the command line
    runsIter,       \* the result of GraphParams::runs
    yielded,        \* the GraphRuns the iterator has yielded so far
    overrides,      \* as_args of each yielded GraphRun
    QUANTILES,      \* crate::QUANTILES
    fs,             \* the file at the results path
    opened,         \* the result of results_writer / from_path
    writer,         \* Option<GraphResultsWriter>: the live writer
    accepted,       \* history: the rows of the write_result calls that returned Ok
    lastWrite,      \* the outcome of the last write_result call
    sweep           \* the sweep driver's position

healthVars == <<health, now, pc, new_state, new_health, lastReturned, started>>
cliVars    == <<cli, params, rejected, runsIter, yielded, overrides>>
writerVars == <<QUANTILES, fs, opened, writer, accepted, lastWrite>>
vars       == <<healthVars, cliVars, writerVars, sweep>>

None    == <<>>
Some(x) == <<x>>

(***************************************************************************)
(* Bounds                                                                  *)
(***************************************************************************)
NumClones == 2      \* clones of one HealthReporter
MaxClock  == 3      \* the clock stops advancing here

(***************************************************************************)
(* health-reporter/src/lib.rs                                              *)
(***************************************************************************)
State  == {"Healthy", "Unhealthy", "ShuttingDown", "Unknown"}
Clones == 1..NumClones

\* Health::new
Health_new(s) == [state |-> s, transition_time |-> now]

\* HealthReporter::new
HealthReporter_new == Health_new("Unhealthy")

\* HealthReporter::state
reporter_state == health.state

\* HealthReporter::health
reporter_health == health

\* the local new_health of a clone that is not between lines 90 and 91
NoHealth == [state |-> "Unhealthy", transition_time |-> 0]

HealthInit ==
    /\ now = 0
    /\ health = HealthReporter_new
    /\ pc = [c \in Clones |-> "idle"]
    /\ new_state = [c \in Clones |-> "Unhealthy"]
    /\ new_health = [c \in Clones |-> NoHealth]
    /\ lastReturned = None
    /\ started = FALSE

\* time passes between any two steps
Tick ==
    /\ now < MaxClock
    /\ now' = now + 1
    /\ UNCHANGED <<health, pc, new_state, new_health, lastReturned, started>>

\* set_state with the comparison inverted: it returns when the state differs
set_state_read_inverted(c, s) ==
    /\ pc[c] = "idle"
    /\ started' = TRUE
    /\ IF health.state # s
         THEN /\ lastReturned' = Some(s)
              /\ UNCHANGED <<pc, new_state>>
         ELSE /\ pc' = [pc EXCEPT ![c] = "new"]
              /\ new_state' = [new_state EXCEPT ![c] = s]
              /\ lastReturned' = None
    /\ UNCHANGED <<health, now, new_health>>

\* set_state, lines 83-89: the check under the read lock; the early return
set_state_read(c, s) ==
    /\ pc[c] = "idle"
    /\ started' = TRUE
    /\ IF health.state = s
         THEN /\ lastReturned' = Some(s)
              /\ UNCHANGED <<pc, new_state>>
         ELSE /\ pc' = [pc EXCEPT ![c] = "new"]
              /\ new_state' = [new_state EXCEPT ![c] = s]
              /\ lastReturned' = None
    /\ UNCHANGED <<health, now, new_health>>

\* set_state, line 90: Health::new(new_state), no lock held
set_state_new(c) ==
    /\ pc[c] = "new"
    /\ new_health' = [new_health EXCEPT ![c] = Health_new(new_state[c])]
    /\ pc' = [pc EXCEPT ![c] = "write"]
    /\ lastReturned' = None
    /\ UNCHANGED <<health, now, new_state, started>>

\* set_state, line 91: the store under the write lock, then the return
set_state_write(c) ==
    /\ pc[c] = "write"
    /\ health' = new_health[c]
    /\ pc' = [pc EXCEPT ![c] = "idle"]
    /\ lastReturned' = Some(new_state[c])
    \* the locals of the call are gone
    /\ new_state' = [new_state EXCEPT ![c] = "Unhealthy"]
    /\ new_health' = [new_health EXCEPT ![c] = NoHealth]
    /\ UNCHANGED <<now, started>>

SetStateRead  == \E c \in Clones, s \in State : set_state_read(c, s)
SetStateNew   == \E c \in Clones : set_state_new(c)
SetStateWrite == \E c \in Clones : set_state_write(c)


(***************************************************************************)
(* Strings                                                                 *)
(***************************************************************************)
\* the code points of the characters the model uses (u8 order, as str::cmp)
Ord == [c \in {",", "-", ".", "/", "0", "1", "2", "3", "4", "5", "6", "7",
               "8", "9", "a", "b", "c", "d", "g", "n", "o", "p", "q", "s",
               "t", "v"} |->
          CASE c = "," -> 44 [] c = "-" -> 45 [] c = "." -> 46 [] c = "/" -> 47
            [] c = "0" -> 48 [] c = "1" -> 49 [] c = "2" -> 50 [] c = "3" -> 51
            [] c = "4" -> 52 [] c = "5" -> 53 [] c = "6" -> 54 [] c = "7" -> 55
            [] c = "8" -> 56 [] c = "9" -> 57 [] c = "a" -> 97 [] c = "b" -> 98
            [] c = "c" -> 99 [] c = "d" -> 100 [] c = "g" -> 103
            [] c = "n" -> 110 [] c = "o" -> 111 [] c = "p" -> 112
            [] c = "q" -> 113 [] c = "s" -> 115 [] c = "t" -> 116
            [] c = "v" -> 118]

\* Ord for String: lexicographic on the bytes
RECURSIVE cmp(_, _)
cmp(k1, k2) ==
    IF k1 = <<>> /\ k2 = <<>> THEN "Equal"
    ELSE IF k1 = <<>> THEN "Less"
    ELSE IF k2 = <<>> THEN "Greater"
    ELSE IF Ord[Head(k1)] < Ord[Head(k2)] THEN "Less"
    ELSE IF Ord[Head(k1)] > Ord[Head(k2)] THEN "Greater"
    ELSE cmp(Tail(k1), Tail(k2))

\* str::split(sep): the pieces between the separators, empty pieces kept
RECURSIVE split(_, _)
split(s, sep) ==
    IF \E i \in 1..Len(s) : s[i] = sep
      THEN LET i == CHOOSE k \in 1..Len(s) :
                        s[k] = sep /\ \A j \in 1..(k - 1) : s[j] # sep
           IN  <<SubSeq(s, 1, i - 1)>> \o split(SubSeq(s, i + 1, Len(s)), sep)
      ELSE <<s>>

\* the index of the last occurrence of c in s, 0 when there is none
rfind(s, c) ==
    IF \E i \in 1..Len(s) : s[i] = c
      THEN CHOOSE i \in 1..Len(s) :
               s[i] = c /\ \A j \in (i + 1)..Len(s) : s[j] # c
      ELSE 0

\* ToString for an unsigned integer: its decimal digits
RECURSIVE to_string(_)
to_string(n) ==
    LET digit(d) == <<"0", "1", "2", "3", "4", "5", "6", "7", "8", "9">>[d + 1]
    IN  IF n < 10 THEN <<digit(n)>>
        ELSE to_string(n \div 10) \o <<digit(n % 10)>>

IsPrefix(s, t) == Len(s) <= Len(t) /\ SubSeq(t, 1, Len(s)) = s

(***************************************************************************)
(* benchmarks/src/graph.rs: parameters, runs, overrides                    *)
(***************************************************************************)
\* from_str that leaves the empty pieces out
from_str_nonempty(s) == SelectSeq(split(s, ","), LAMBDA piece : piece # <<>>)

\* CommaSeparatedString::from_str
from_str(s) == split(s, ",")

\* the arguments of GraphParams
Args == {"graph", "x_axis", "x_values", "x_axis_is_datagen_var",
         "graph_results_path"}

\* an argument given on the command line (ArgPredicate::IsPresent); a flag
\* that is not given keeps its default and does not count as present
IsPresent(c, a) ==
    CASE a = "graph"                 -> c.graph
      [] a = "x_axis"                -> c.x_axis # None
      [] a = "x_values"              -> c.x_values # None
      [] a = "x_axis_is_datagen_var" -> c.x_axis_is_datagen_var
      [] a = "graph_results_path"    -> c.graph_results_path # None

\* requires_ifs with the attribute of x_axis_is_datagen_var left out
requires_ifs_flag_free(a) ==
    CASE a = "graph"    -> {"x_axis", "x_values", "graph_results_path"}
      [] a = "x_axis"   -> {"graph", "x_values", "graph_results_path"}
      [] a = "x_values" -> {"graph", "x_axis", "graph_results_path"}
      [] a = "x_axis_is_datagen_var" -> {}
      [] a = "graph_results_path" -> {"graph", "x_axis", "x_values"}

\* the requires_ifs attributes of the five fields
requires_ifs(a) ==
    CASE a = "graph"    -> {"x_axis", "x_values", "graph_results_path"}
      [] a = "x_axis"   -> {"graph", "x_values", "graph_results_path"}
      [] a = "x_values" -> {"graph", "x_axis", "graph_results_path"}
      [] a = "x_axis_is_datagen_var" ->
             {"graph", "x_axis", "x_values", "graph_results_path"}
      [] a = "graph_results_path" -> {"graph", "x_axis", "x_values"}

\* the parser accepts a command line when every argument that is present has
\* the arguments it requires
Accepts(c) ==
    \A a \in Args : IsPresent(c, a) =>
        \A r \in requires_ifs(a) : IsPresent(c, r)

\* the GraphParams the parser builds: x_values goes through its value_parser
GraphParams(c) ==
    [graph                 |-> c.graph,
     x_axis                |-> c.x_axis,
     x_values              |-> IF c.x_values = None THEN None
                               ELSE Some(from_str(c.x_values[1])),
     x_axis_is_datagen_var |-> c.x_axis_is_datagen_var,
     graph_results_path    |-> c.graph_results_path]

NotCalled == [tag |-> "NotCalled"]
Panic     == [tag |-> "Panic"]

\* the GraphRun the closure of runs builds for the value v
GraphRun(p, v) ==
    [x_axis |-> p.x_axis[1], x_value |-> v,
     x_axis_is_datagen_var |-> p.x_axis_is_datagen_var]

\* GraphParams::runs: both unwraps happen in the call, the items are lazy
runs_of(p) ==
    IF p.x_axis = None \/ p.x_values = None THEN Panic
    ELSE [tag |-> "Iter", values |-> p.x_values[1], pos |-> 0]

\* as_args with a single dash before the flag
as_args_one_dash(run) ==
    IF run.x_axis_is_datagen_var
      THEN [tag |-> "Json", value |-> [k \in {run.x_axis} |-> run.x_value]]
      ELSE [tag |-> "CliArgs",
            args |-> <<<<"b", "e", "n", "c", "h", "m", "a", "r", "k", "s">>,
                       <<"-">> \o run.x_axis,
                       run.x_value>>]

\* GraphRun::as_args
as_args(run) ==
    IF run.x_axis_is_datagen_var
      THEN [tag |-> "Json", value |-> [k \in {run.x_axis} |-> run.x_value]]
      ELSE [tag |-> "CliArgs",
            args |-> <<<<"b", "e", "n", "c", "h", "m", "a", "r", "k", "s">>,
                       <<"-", "-">> \o run.x_axis,
                       run.x_value>>]

\* x_value that hands out the axis
x_value_axis(run) == run.x_axis

\* GraphRun::x_value
x_value(run) == run.x_value


(***************************************************************************)
(* benchmarks/src/graph.rs: the results writer                             *)
(***************************************************************************)
BufRows == 1        \* records the csv writer's buffer holds before it spills

\* Path::file_name: the last component, unless it is `..`
file_name(path) ==
    LET comps == SelectSeq(split(path, "/"),
                           LAMBDA c : c # <<>> /\ c # <<".">>)
    IN  IF comps = <<>> \/ comps[Len(comps)] = <<".", ".">> THEN None
        ELSE Some(comps[Len(comps)])

\* Path::extension: what follows the last dot of the file name; none when the
\* name has no dot, or only a leading one
extension(path) ==
    IF file_name(path) = None THEN None
    ELSE LET file == file_name(path)[1]
             dot  == rfind(file, ".")
         IN  IF dot <= 1 THEN None
             ELSE Some(SubSeq(file, dot + 1, Len(file)))

Ok       == [tag |-> "Ok"]
Err(e)   == [tag |-> "Err", error |-> e]
IoError  == <<"io error">>

\* the three bail! messages of from_path
PngError         == <<"PNG output not yet implemented">>
UnsupportedError(ext) ==
    <<"Unsupported extension for --graph-results-path: .">> \o ext
UndeterminedError ==
    <<"Could not determine output file format from --graph-results-path">>

\* from_path that creates the file before it looks at the extension
from_path_create_first(path, create_ok) ==
    LET ext == extension(path)
    IN  IF ~create_ok
          THEN /\ opened' = Err(IoError)
               /\ UNCHANGED <<fs, writer>>
        ELSE IF ext = Some(<<"c", "s", "v">>)
          THEN /\ fs' = [exists |-> TRUE, rows |-> <<>>]
               /\ writer' = Some([tag |-> "CSV", buf |-> <<>>])
               /\ opened' = Ok
        ELSE /\ fs' = [exists |-> TRUE, rows |-> <<>>]
             /\ writer' = None
             /\ opened' = IF ext = Some(<<"p", "n", "g">>) THEN Err(PngError)
                           ELSE IF ext # None THEN Err(UnsupportedError(ext[1]))
                           ELSE Err(UndeterminedError)

\* GraphResultsWriter::from_path; create_ok: File::create succeeds
from_path(path, create_ok) ==
    LET ext == extension(path)
    IN  IF ext = Some(<<"c", "s", "v">>)
          THEN IF create_ok
                 THEN /\ fs' = [exists |-> TRUE, rows |-> <<>>]
                      /\ writer' = Some([tag |-> "CSV", buf |-> <<>>])
                      /\ opened' = Ok
                 ELSE /\ opened' = Err(IoError)
                      /\ UNCHANGED <<fs, writer>>
        ELSE IF ext = Some(<<"p", "n", "g">>)
          THEN /\ opened' = Err(PngError)
               /\ UNCHANGED <<fs, writer>>
        ELSE IF ext # None
          THEN /\ opened' = Err(UnsupportedError(ext[1]))
               /\ UNCHANGED <<fs, writer>>
        ELSE /\ opened' = Err(UndeterminedError)
             /\ UNCHANGED <<fs, writer>>

\* GraphParams::results_writer
results_writer(create_ok) ==
    /\ params # None
    /\ opened = NotCalled
    /\ IF params[1].graph_results_path = None
         THEN /\ opened' = Panic
              /\ UNCHANGED <<fs, writer>>
         ELSE from_path(params[1].graph_results_path[1], create_ok)
    /\ UNCHANGED <<QUANTILES, accepted, lastWrite>>

\* what the histogram of a metric's data answers; the data is the sorted
\* sequence of its samples
hist_len(data)  == Len(data)
hist_min(data)  == IF data = <<>> THEN 0 ELSE data[1]
hist_max(data)  == IF data = <<>> THEN 0 ELSE data[Len(data)]
RECURSIVE sum(_)
sum(data)       == IF data = <<>> THEN 0 ELSE Head(data) + sum(Tail(data))
hist_mean(data) == IF data = <<>> THEN 0 ELSE sum(data) \div Len(data)
\* quantiles are in percent
value_at_quantile(data, q) ==
    IF data = <<>> THEN 0
    ELSE LET rank == (q * Len(data) + 99) \div 100
         IN  data[IF rank < 1 THEN 1 ELSE rank]

\* Vec::sort_by(|(k1, _), (k2, _)| k1.cmp(k2)): a stable sort on the names
RECURSIVE insert(_, _)
insert(sorted, e) ==
    IF sorted = <<>> THEN <<e>>
    ELSE IF cmp(e[1], Head(sorted)[1]) = "Less" THEN <<e>> \o sorted
    ELSE <<Head(sorted)>> \o insert(Tail(sorted), e)

\* no sort: the entries stay in the order of the map
sort_by_unsorted(v) == v

RECURSIVE sort_by(_)
sort_by(v) ==
    IF v = <<>> THEN <<>>
    ELSE insert(sort_by(SubSeq(v, 1, Len(v) - 1)), v[Len(v)])

\* the closure of the flat_map: the columns of one metric
columns(data) ==
    <<to_string(hist_len(data)), to_string(hist_min(data)),
      to_string(hist_max(data)), to_string(hist_mean(data))>>
    \o [i \in 1..Len(QUANTILES) |->
            to_string(value_at_quantile(data, QUANTILES[i][2]))]

RECURSIVE flat_map(_)
flat_map(result_values) ==
    IF result_values = <<>> THEN <<>>
    ELSE columns(Head(result_values)[2]) \o flat_map(Tail(result_values))

\* the row write_result builds; results is the (name, data) entries of
\* results.results in the order the map iterates them
row_of(xv, results) == <<xv>> \o flat_map(sort_by(results))

\* a write_result call that returned, with what it was given
Returned(t, xv, results) == [tag |-> t, x_value |-> xv, results |-> results]

\* write_result whose writer forgets the buffered rows when it spills
write_result_losing(xv, results, io_ok) ==
    /\ writer # None
    /\ LET csv == writer[1]
           row == row_of(xv, results)
       IN  IF Len(csv.buf) < BufRows
             THEN /\ writer' = Some([csv EXCEPT !.buf = Append(@, row)])
                  /\ accepted' = Append(accepted, row)
                  /\ lastWrite' = Returned("Ok", xv, results)
                  /\ UNCHANGED fs
           ELSE /\ writer' = Some([csv EXCEPT !.buf = <<row>>])
                /\ accepted' = Append(accepted, row)
                /\ lastWrite' = Returned("Ok", xv, results)
                /\ UNCHANGED fs
    /\ UNCHANGED <<QUANTILES, opened>>

\* GraphResultsWriter::write_result; io_ok: the file accepts a spill
write_result(xv, results, io_ok) ==
    /\ writer # None
    /\ LET csv == writer[1]
           row == row_of(xv, results)
       IN  IF Len(csv.buf) < BufRows
             THEN /\ writer' = Some([csv EXCEPT !.buf = Append(@, row)])
                  /\ accepted' = Append(accepted, row)
                  /\ lastWrite' = Returned("Ok", xv, results)
                  /\ UNCHANGED fs
           ELSE IF io_ok
             THEN /\ fs' = [fs EXCEPT !.rows = @ \o csv.buf]
                  /\ writer' = Some([csv EXCEPT !.buf = <<row>>])
                  /\ accepted' = Append(accepted, row)
                  /\ lastWrite' = Returned("Ok", xv, results)
           ELSE /\ lastWrite' = Returned("Err", xv, results)
                /\ UNCHANGED <<fs, writer, accepted>>
    /\ UNCHANGED <<QUANTILES, opened>>

\* the writer goes out of scope: it flushes, and ignores a failure to
drop_writer(io_ok) ==
    /\ writer # None
    /\ writer' = None
    /\ fs' = IF io_ok THEN [fs EXCEPT !.rows = @ \o writer[1].buf] ELSE fs
    /\ UNCHANGED <<QUANTILES, opened, accepted, lastWrite>>


(***************************************************************************)
(* Inputs                                                                  *)
(***************************************************************************)
MaxRaw     == 3     \* characters of an --x-values argument
MaxRows    == 3     \* write_result calls on one writer
MaxMetrics == 2     \* metrics of one BenchmarkResults

\* all strings of at most n characters over the alphabet cs
RECURSIVE Strings(_, _)
Strings(cs, n) ==
    IF n = 0 THEN {<<>>}
    ELSE Strings(cs, n - 1) \cup
         {Append(s, c) : s \in {t \in Strings(cs, n - 1) : Len(t) = n - 1},
                         c \in cs}

RawValues == Strings({"1", ","}, MaxRaw)
AxisNames == {<<"q", "p", "s">>, <<"n">>}
CsvPath   == <<"o", ".", "c", "s", "v">>
Paths ==
    {CsvPath,
     <<"o", ".", "p", "n", "g">>,
     <<"o", ".", "d", "a", "t">>,
     <<"o">>,
     <<"o", ".">>,
     <<".", "c", "s", "v">>,
     <<"a", ".", "b", "/", "o">>,
     <<"d", "/", "o", ".", "p", "n", "g", ".", "c", "s", "v">>,
     <<"o", ".", "c", "s", "v", "/", ".", ".">>,
     <<"c", "s", "v">>}

Opt(S) == {None} \cup {Some(x) : x \in S}

CommandLines ==
    [graph : BOOLEAN, x_axis : Opt(AxisNames), x_values : Opt(RawValues),
     x_axis_is_datagen_var : BOOLEAN, graph_results_path : Opt(Paths)]

\* the file at the results path before the program runs
OldRow   == <<<<"o", "d">>>>
NoFile   == [exists |-> FALSE, rows |-> <<>>]
Files    == {NoFile, [exists |-> TRUE, rows |-> <<OldRow>>]}

MetricNames == {<<"a">>, <<"a", "b">>, <<"b">>}
DataSets    == {<<1, 2, 12>>, <<3>>}
\* the entries of a results map, in every iteration order
Results ==
    {r \in UNION {[1..n -> MetricNames \X DataSets] : n \in 0..MaxMetrics} :
        \A i, j \in 1..Len(r) : i # j => r[i][1] # r[j][1]}
\* what a run of the benchmark hands back
RunResults ==
    {<<<<<<"a">>, <<3>>>>>>,
     <<<<<<"b">>, <<3>>>>, <<<<"a">>, <<1, 2, 12>>>>>>}

XValues == {<<"1">>, <<"2", "0">>}
QuantileSets ==
    {<<>>, <<<<"p50", 50>>>>, <<<<"p50", 50>>, <<"p99", 99>>>>,
     <<<<"p99", 99>>, <<"p50", 50>>>>}

CliIdle ==
    /\ params = None
    /\ rejected = FALSE
    /\ runsIter = NotCalled
    /\ yielded = <<>>
    /\ overrides = <<>>

WriterIdle ==
    /\ opened = NotCalled
    /\ writer = None
    /\ accepted = <<>>
    /\ lastWrite = NotCalled

(***************************************************************************)
(* The command line, runs and as_args                                      *)
(***************************************************************************)
\* GraphParams::parse: the derived parser
Parse ==
    /\ params = None /\ ~rejected
    /\ IF Accepts(cli)
         THEN params' = Some(GraphParams(cli)) /\ UNCHANGED rejected
         ELSE rejected' = TRUE /\ UNCHANGED params
    /\ UNCHANGED <<cli, runsIter, yielded, overrides>>

\* GraphParams::runs
runs ==
    /\ params # None
    /\ runsIter = NotCalled
    /\ runsIter' = runs_of(params[1])
    /\ UNCHANGED <<cli, params, rejected, yielded, overrides>>

\* Iterator::next on the result of runs, while it has items
runs_next ==
    /\ runsIter.tag = "Iter"
    /\ runsIter.pos < Len(runsIter.values)
    /\ runsIter' = [runsIter EXCEPT !.pos = @ + 1]
    /\ yielded' = Append(yielded,
                         GraphRun(params[1], runsIter.values[runsIter.pos + 1]))
    /\ UNCHANGED <<cli, params, rejected, overrides>>

\* as_args on the GraphRun yielded last
encode ==
    /\ Len(overrides) < Len(yielded)
    /\ overrides' = Append(overrides, as_args(yielded[Len(overrides) + 1]))
    /\ UNCHANGED <<cli, params, rejected, runsIter, yielded>>

CallParse   == Parse /\ UNCHANGED <<healthVars, writerVars, sweep>>
CallRuns    == runs /\ UNCHANGED <<healthVars, writerVars, sweep>>
CallNext    == runs_next /\ UNCHANGED <<healthVars, writerVars, sweep>>
CallAsArgs  == encode /\ UNCHANGED <<healthVars, writerVars, sweep>>
CallResultsWriter ==
    /\ \E create_ok \in BOOLEAN : results_writer(create_ok)
    /\ UNCHANGED <<healthVars, cliVars, sweep>>
\* io_ok is an input only when the call spills the buffer
Spills == writer # None /\ Len(writer[1].buf) >= BufRows
IoOutcomes == IF Spills THEN BOOLEAN ELSE {TRUE}

\* a caller writes the results of a run
CallWriteResult ==
    /\ Len(accepted) < MaxRows
    /\ \E xv \in XValues, results \in RunResults, io_ok \in IoOutcomes :
           write_result(xv, results, io_ok)
    /\ UNCHANGED <<healthVars, cliVars, sweep>>
\* a caller writes one result, of any shape
CallWriteAny ==
    /\ lastWrite = NotCalled
    /\ \E xv \in XValues, results \in Results, io_ok \in IoOutcomes :
           write_result(xv, results, io_ok)
    /\ UNCHANGED <<healthVars, cliVars, sweep>>
CallDrop ==
    /\ \E io_ok \in BOOLEAN : drop_writer(io_ok)
    /\ UNCHANGED <<healthVars, cliVars, sweep>>

CliInit ==
    /\ HealthInit
    /\ cli \in CommandLines
    /\ CliIdle
    /\ QUANTILES = <<>>
    /\ fs \in Files
    /\ WriterIdle
    /\ sweep = "off"

CliNext == CallParse \/ CallRuns \/ CallNext \/ CallAsArgs \/ CallResultsWriter

SpecCli == CliInit /\ [][CliNext]_vars

(***************************************************************************)
(* The writer, used by any caller                                          *)
(***************************************************************************)
\* the command lines the parser accepts with --graph
GraphCommandLines == {c \in CommandLines : c.graph /\ Accepts(c)}

WriterInit ==
    /\ HealthInit
    /\ cli \in {c \in GraphCommandLines :
                  c.x_values = Some(<<"1">>) /\ ~c.x_axis_is_datagen_var}
    /\ params = Some(GraphParams(cli))
    /\ rejected = FALSE
    /\ runsIter = NotCalled
    /\ yielded = <<>>
    /\ overrides = <<>>
    /\ QUANTILES \in QuantileSets
    /\ fs \in Files
    /\ WriterIdle
    /\ sweep = "off"

WriterNext == CallResultsWriter \/ CallWriteResult \/ CallDrop

SpecWriter == WriterInit /\ [][WriterNext]_vars

(***************************************************************************)
(* One row, for results of any shape                                       *)
(***************************************************************************)
RowInit ==
    /\ WriterInit
    /\ cli.graph_results_path = Some(CsvPath)

RowNext == CallResultsWriter \/ CallWriteAny

SpecRow == RowInit /\ [][RowNext]_vars

(***************************************************************************)
(* The health reporter and its clones                                      *)
(***************************************************************************)
Init ==
    /\ HealthInit
    /\ cli = [graph |-> FALSE, x_axis |-> None, x_values |-> None,
              x_axis_is_datagen_var |-> FALSE, graph_results_path |-> None]
    /\ CliIdle
    /\ QUANTILES = <<>>
    /\ fs = NoFile
    /\ WriterIdle
    /\ sweep = "off"

Advance == Tick /\ UNCHANGED <<cliVars, writerVars, sweep>>
Read    == SetStateRead /\ UNCHANGED <<cliVars, writerVars, sweep>>
Stamp   == SetStateNew /\ UNCHANGED <<cliVars, writerVars, sweep>>
Write   == SetStateWrite /\ UNCHANGED <<cliVars, writerVars, sweep>>

Next == Advance \/ Read \/ Stamp \/ Write

Spec == Init /\ [][Next]_vars


(***************************************************************************)
(* The sweep: one run of the benchmark per GraphRun, one row per run       *)
(***************************************************************************)
SweepInit ==
    /\ HealthInit
    /\ cli \in {c \in GraphCommandLines : c.graph_results_path = Some(CsvPath)}
    /\ params = Some(GraphParams(cli))
    /\ rejected = FALSE
    /\ runsIter = NotCalled
    /\ yielded = <<>>
    /\ overrides = <<>>
    /\ QUANTILES = <<<<"p50", 50>>, <<"p99", 99>>>>
    /\ fs \in Files
    /\ WriterIdle
    /\ sweep = "start"

\* the writer is opened before the first run
DriverOpen ==
    /\ sweep = "start"
    /\ \E create_ok \in BOOLEAN : results_writer(create_ok)
    /\ sweep' = IF opened'.tag = "Ok" THEN "opened" ELSE "aborted"
    /\ UNCHANGED <<healthVars, cliVars>>

DriverRuns ==
    /\ sweep = "opened"
    /\ runs
    /\ sweep' = "next"
    /\ UNCHANGED <<healthVars, writerVars>>

\* the next GraphRun, or the end of the sweep
DriverNext ==
    /\ sweep = "next"
    /\ IF runsIter.pos < Len(runsIter.values)
         THEN runs_next /\ sweep' = "encode"
         ELSE sweep' = "done" /\ UNCHANGED cliVars
    /\ UNCHANGED <<healthVars, writerVars>>

DriverEncode ==
    /\ sweep = "encode"
    /\ encode
    /\ sweep' = "run"
    /\ UNCHANGED <<healthVars, writerVars>>

\* the run of the benchmark fails: the sweep ends with its error
RunFails ==
    /\ sweep = "run"
    /\ sweep' = "aborted"
    /\ UNCHANGED <<healthVars, cliVars, writerVars>>

\* the run succeeds and its results are written
DriverWrite ==
    /\ sweep = "run"
    /\ \E results \in RunResults, io_ok \in IoOutcomes :
           write_result(x_value(yielded[Len(yielded)]), results, io_ok)
    /\ sweep' = IF lastWrite'.tag = "Ok" THEN "next" ELSE "aborted"
    /\ UNCHANGED <<healthVars, cliVars>>

\* the sweep is over, with or without an error: the writer is dropped
DriverClose ==
    /\ sweep \in {"done", "aborted"}
    /\ \E io_ok \in BOOLEAN : drop_writer(io_ok)
    /\ UNCHANGED <<healthVars, cliVars, sweep>>

SweepNext ==
    \/ DriverOpen \/ DriverRuns \/ DriverNext \/ DriverEncode
    \/ RunFails \/ DriverWrite \/ DriverClose

SpecSweep == SweepInit /\ [][SweepNext]_vars


(***************************************************************************)
(* Properties                                                              *)
(***************************************************************************)
\* the number of commas of a string
Commas(s) == Cardinality({i \in 1..Len(s) : s[i] = ","})

\* C1: with the sweep enabled, runs yields one GraphRun per element of
\* x_values (one more than the commas of --x-values), the i-th with the i-th
\* value, each with the x_axis and the x_axis_is_datagen_var of the parameters.
C1_RunsYieldsEachValueInOrder ==
    (params # None /\ runsIter.tag = "Iter" /\ params[1].graph) =>
        LET p    == params[1]
            vals == p.x_values[1]
        IN  /\ Len(vals) = Commas(cli.x_values[1]) + 1
            /\ Len(yielded) <= Len(vals)
            /\ \A i \in 1..Len(yielded) :
                   /\ yielded[i].x_value = vals[i]
                   /\ yielded[i].x_axis = cli.x_axis[1]
                   /\ yielded[i].x_axis_is_datagen_var = cli.x_axis_is_datagen_var
            /\ (runsIter.pos >= Len(runsIter.values) => Len(yielded) = Len(vals))

C1_Witness ==
    /\ runsIter.tag = "Iter"
    /\ runsIter.pos >= Len(runsIter.values)
    /\ Len(yielded) = 3
    /\ yielded[1].x_value # yielded[2].x_value

\* C2: as_args gives CliArgs ["benchmarks", "--" + x_axis, x_value] when
\* x_axis_is_datagen_var is false, and a Json object with the single key
\* x_axis, mapped to x_value, when it is true.
C2_AsArgsByFlag ==
    \A i \in 1..Len(overrides) :
        LET run == yielded[i]
            o   == overrides[i]
        IN  IF run.x_axis_is_datagen_var
              THEN /\ o.tag = "Json"
                   /\ DOMAIN o.value = {run.x_axis}
                   /\ o.value[run.x_axis] = run.x_value
              ELSE /\ o.tag = "CliArgs"
                   /\ Len(o.args) = 3
                   /\ o.args[1] = <<"b", "e", "n", "c", "h", "m", "a", "r", "k", "s">>
                   /\ SubSeq(o.args[2], 1, 2) = <<"-", "-">>
                   /\ SubSeq(o.args[2], 3, Len(o.args[2])) = run.x_axis
                   /\ o.args[3] = run.x_value

C2_Witness ==
    /\ Len(overrides) = 2
    /\ overrides[1].tag = "CliArgs"
    /\ overrides[2].args[3] = <<"1">>

\* the command line gives some but not all of the sweep's arguments
Partial(c) ==
    LET given == {a \in Args : IsPresent(c, a)}
    IN  /\ given # {}
        /\ ~({"graph", "x_axis", "x_values", "graph_results_path"} \subseteq given)

\* C7: the parser accepts a command line only with all of --graph, --x-axis,
\* --x-values and --graph-results-path or with none of them, the flag
\* --x-axis-is-datagen-var only with all of them; a partial command line is
\* rejected with no GraphRun yielded and no writer opened; runs and
\* results_writer panic exactly when graph is false.
C7_AllOrNothing ==
    /\ Partial(cli) => params = None
    /\ rejected =>
           /\ Partial(cli)
           /\ runsIter = NotCalled /\ yielded = <<>>
           /\ opened = NotCalled /\ writer = None /\ fs \in Files
    /\ params # None =>
           LET p == params[1]
           IN  /\ \/ /\ p.graph
                     /\ p.x_axis # None /\ p.x_values # None
                     /\ p.graph_results_path # None
                  \/ /\ ~p.graph /\ ~p.x_axis_is_datagen_var
                     /\ p.x_axis = None /\ p.x_values = None
                     /\ p.graph_results_path = None
               /\ runsIter.tag # "NotCalled" =>
                      (runsIter.tag = "Panic" <=> ~p.graph)
               /\ opened.tag # "NotCalled" =>
                      (opened.tag = "Panic" <=> ~p.graph)

C7_Witness ==
    /\ params # None
    /\ ~params[1].graph
    /\ runsIter.tag = "Panic"
    /\ opened.tag = "Panic"

\* the outcome from_path is to have for each path of Paths
Expected(path) ==
    CASE path \in {CsvPath,
                   <<"d", "/", "o", ".", "p", "n", "g", ".", "c", "s", "v">>}
             -> "csv"
      [] path = <<"o", ".", "p", "n", "g">> -> "png"
      [] path = <<"o", ".", "d", "a", "t">> -> "dat"
      [] path = <<"o", ".">> -> "empty"
      [] OTHER -> "none"

\* C3: from_path decides by the extension of the path: csv opens a CSV writer
\* or gives the error of creating the file; png gives the not-implemented
\* error; another extension gives the unsupported-extension error, which
\* ends with that extension; no extension gives the could-not-determine
\* error; in the three failing cases there is no writer and the file at the
\* path is as it was.
C3_FromPathByExtension ==
    opened.tag # "NotCalled" =>
        LET e == Expected(params[1].graph_results_path[1])
        IN  /\ e = "csv" => \/ opened = Ok
                            \/ /\ opened = Err(IoError)
                               /\ writer = None /\ fs \in Files
            /\ e = "png" => opened = Err(PngError)
            /\ e = "dat" =>
                   /\ opened.tag = "Err"
                   /\ opened.error[1] =
                          "Unsupported extension for --graph-results-path: ."
                   /\ Tail(opened.error) = <<"d", "a", "t">>
            /\ e = "empty" =>
                   /\ opened.tag = "Err"
                   /\ opened.error =
                          <<"Unsupported extension for --graph-results-path: .">>
            /\ e = "none" => opened = Err(UndeterminedError)
            /\ e # "csv" => /\ writer = None
                            /\ fs \in Files
                            /\ accepted = <<>>

C3_Witness ==
    /\ opened.tag = "Err"
    /\ opened.error = UnsupportedError(<<"d", "a", "t">>)
    /\ fs.exists

\* the entry of a results map with exactly n names below its own
Ranked(results, n) ==
    CHOOSE e \in {results[i] : i \in 1..Len(results)} :
        Cardinality({i \in 1..Len(results) :
                        cmp(results[i][1], e[1]) = "Less"}) = n

\* C4: the row of m metrics under k quantiles has 1 + m * (4 + k) columns:
\* the x value as given, then for each metric in ascending order of its name,
\* whatever the order of the map, its count, min, max, mean and its value at
\* each quantile in the order of QUANTILES.
C4_RowLayout ==
    lastWrite.tag = "Ok" =>
        LET row     == accepted[Len(accepted)]
            results == lastWrite.results
            m       == Len(results)
            k       == Len(QUANTILES)
        IN  /\ Len(row) = 1 + m * (4 + k)
            /\ row[1] = lastWrite.x_value
            /\ \A j \in 1..m :
                   LET data == Ranked(results, j - 1)[2]
                       base == 1 + (j - 1) * (4 + k)
                   IN  /\ row[base + 1] = to_string(hist_len(data))
                       /\ row[base + 2] = to_string(hist_min(data))
                       /\ row[base + 3] = to_string(hist_max(data))
                       /\ row[base + 4] = to_string(hist_mean(data))
                       /\ \A q \in 1..k :
                              row[base + 4 + q] =
                                  to_string(value_at_quantile(data, QUANTILES[q][2]))

C4_Witness ==
    /\ lastWrite.tag = "Ok"
    /\ Len(QUANTILES) = 2
    /\ Len(lastWrite.results) = 2
    /\ cmp(lastWrite.results[1][1], lastWrite.results[2][1]) = "Greater"
    /\ Len(accepted[1]) = 13

\* C5, as stated: once a write_result call has returned Ok, the file holds
\* the rows of all the calls that returned Ok so far.
C5_EachRowOnDisk ==
    (writer # None /\ lastWrite.tag = "Ok") => fs.rows = accepted

\* C5, amended: while the writer lives, the rows of the calls that returned
\* Ok are, in call order, the rows of the file followed by the rows in the
\* writer's buffer; the file alone holds a prefix of them.
C5_RowsInFileThenBuffer ==
    writer # None =>
        /\ fs.rows \o writer[1].buf = accepted
        /\ IsPrefix(fs.rows, accepted)
        /\ lastWrite.tag = "Ok" =>
               accepted[Len(accepted)] =
                   row_of(lastWrite.x_value, lastWrite.results)

C5_Witness ==
    /\ writer # None
    /\ lastWrite.tag = "Ok"
    /\ Len(accepted) = 3
    /\ Len(fs.rows) = 2
    /\ accepted[1] # accepted[2]

\* the rows the writer has taken: those of the file, then those it buffers
Stream == fs.rows \o (IF writer = None THEN <<>> ELSE writer[1].buf)
AxisOf(rows) == [i \in 1..Len(rows) |-> rows[i][1]]

C6_State ==
    opened.tag = "Ok" =>
        LET vals == params[1].x_values[1]
        IN  /\ IsPrefix(AxisOf(fs.rows), vals)
            /\ writer # None =>
                   /\ IsPrefix(AxisOf(Stream), vals)
                   /\ sweep \in {"opened", "next", "done"} =>
                          Len(Stream) = Len(yielded)
                   /\ sweep \in {"encode", "run", "aborted"} =>
                          Len(Stream) = Len(yielded) - 1
                   /\ sweep = "done" => AxisOf(Stream) = vals

C6_Step ==
    /\ opened.tag = "Ok" => IsPrefix(fs.rows, fs'.rows)
    /\ sweep = "aborted" =>
           /\ sweep' = "aborted"
           /\ yielded' = yielded /\ accepted' = accepted

C8_WritesOnlyOnTransition ==
    [][health'.transition_time # health.transition_time
           => health'.state # health.state]_vars

\* C9: a new reporter reports Unhealthy; once set_state(s) has returned and
\* no other set_state has run since, state() and health().state are s.
C9_ReportsLastSetState ==
    /\ ~started => reporter_state = "Unhealthy"
    /\ lastReturned # None =>
           /\ reporter_state = lastReturned[1]
           /\ reporter_health.state = lastReturned[1]

C9_Witness ==
    /\ lastReturned = Some("ShuttingDown")
    /\ \E c \in Clones : pc[c] = "write" /\ new_state[c] = "Healthy"

\* C10: transition_time never decreases.
C10_TransitionTimeMonotone ==
    [][health'.transition_time >= health.transition_time]_vars

====
